---- MODULE Spec2Model ----
(***************************************************************************)
(* The AI enrichment pipeline of src/main.py: process_ai_logic (the        *)
(* executor with its data-protection rule), the triggers that call it and  *)
(* the posts table they share.                                             *)
(*                                                                         *)
(* Every invocation of process_ai_logic opens its own connection, so the   *)
(* table is read and written only through single SQL statements; each      *)
(* statement (with the commit that follows an UPDATE) is one atomic step.  *)
(* The Gemini calls between the statements are steps of their own: they    *)
(* touch no shared state but take long, so other invocations interleave.   *)
(***************************************************************************)
EXTENDS Integers, Sequences, FiniteSets, TLC

VARIABLES
    posts,      \* the posts table: post id -> row (the ids present are DOMAIN posts)
    inv,        \* the process_ai_logic invocation of each execution context
    sweep,      \* periodic_sync_task: where the loop is and what is left of empty_posts
    origin,     \* history: the posts table at the start
    hist,       \* history: what the last invocation of each observed context did
    cycle,      \* history: what the sweep cycle under way (or the last one) has done
    web,        \* the requests create_post and the manual endpoints are serving
    gw,         \* one call of run_gemini_vision / run_gemini_music taken alone
    bulk        \* the request sync_missing_ai_data is serving

vars == <<posts, inv, sweep, origin, hist, cycle, web, gw, bulk>>

(***************************************************************************)
(* Bounds                                                                  *)
(***************************************************************************)
\* posts in the table of SweepSpec, LiveSpec and FrameSpec
NumRecords == 2
\* posts in the table of BulkSpec
BulkRecords == 2

(***************************************************************************)
(* Values                                                                  *)
(***************************************************************************)
\* SQL NULL / Python None
NULL == "<NULL>"
\* a dict key that is not present
Missing == "<missing>"
\* a Python local that has not been assigned yet
Unset == "<unset>"
\* the texts Gemini can produce for art_review / music_prompt
Values == {"v1", "v2"}
\* a text stored before the invocations of a scenario start
Prior == "v0"
\* the last operand of `description or current_data['ai_summary'] or "예술 작품"`
GenericText == "generic"

\* Python truthiness of a text column: None and '' are falsy
Falsy(x) == x = NULL \/ x = ""

\* a variant of the guard that takes every stored value for empty
SqlEmptyAlways(x) == TRUE

\* the predicate `col IS NULL OR col = ''` of the safe-mode UPDATE
SqlEmpty(x) == x = NULL \/ x = ""

\* Python `a or b`
Or(a, b) == IF Falsy(a) THEN b ELSE a

(***************************************************************************)
(* The Gemini gateway: run_gemini_vision / run_gemini_music.               *)
(* kind "none": the function returned None (image not loaded, model or     *)
(*   parse error) or a falsy JSON value such as {};                        *)
(* kind "bad":  json.loads gave a truthy value that is no dict (a list, a  *)
(*   string), so that `.get` raises AttributeError in the caller;          *)
(* kind "dict": a dict; val is what it holds under the key the caller      *)
(*   reads (Missing: no such key, NULL: JSON null).                        *)
(***************************************************************************)
NotCalled == [kind |-> "unset", val |-> Missing]
GwNone == [kind |-> "none", val |-> Missing]
GwBad == [kind |-> "bad", val |-> Missing]
GwDict(v) == [kind |-> "dict", val |-> v]
PayloadValues == {Missing, NULL, ""} \cup Values

\* Python values json.loads can give: None, a non-empty string or a number
\* (py "str"), {} (py "empty"), a dict that is not empty (val: what it holds
\* under the key the caller reads) and a list
PyValue(py, val, items) == [py |-> py, val |-> val, items |-> items]
PyNone == PyValue("None", Missing, <<>>)
PyText == PyValue("str", Missing, <<>>)
PyEmptyDict == PyValue("empty", Missing, <<>>)
PyDict(v) == PyValue("dict", v, <<>>)
PyList(items) == PyValue("list", Missing, items)

\* Python truthiness of such a value
Truthy(x) == x.py \in {"str", "dict"} \/ (x.py = "list" /\ x.items # <<>>)

\* the exceptions raised inside the two functions
RequestError == PyValue("raise", "requests", <<>>)
ApiError == PyValue("raise", "genai", <<>>)
JSONDecodeError == PyValue("raise", "json", <<>>)
IndexError == PyValue("raise", "index", <<>>)
Exceptions == {RequestError, ApiError, JSONDecodeError, IndexError}

\* the JSON documents Gemini can answer with
Documents ==
    {PyNone, PyText, PyEmptyDict} \cup {PyDict(v) : v \in PayloadValues}
       \cup {PyList(<<>>), PyList(<<PyText>>)} \cup {PyList(<<PyDict(v)>>) : v \in {Missing, "v1"}}

\* response.text: a JSON document, no text at all or a text that is no JSON,
\* with or without a ```json fence around it
NotJson == {PyValue("text", "", <<>>), PyValue("text", "not json", <<>>)}
Texts == [fenced : BOOLEAN, body : Documents \cup NotJson]

\* what model.generate_content and response.text give: an exception (network
\* error, timeout, quota, blocked answer) or a text
Replies == {ApiError} \cup Texts

\* image_url: one that requests.get and Image.open succeed on, one they fail on
Urls == {"good_url", "bad_url"}
TheImage == PyValue("Image", Missing, <<>>)

\* try: ... except Exception: return None
TryOrNone(v) == IF v \in Exceptions THEN PyNone ELSE v

\* requests.get(url, timeout=10); raise_for_status(); Image.open(...), in its try
load_image_from_url(url) ==
    LET opened == IF url = "good_url" THEN TheImage ELSE RequestError
    IN TryOrNone(opened)

\* json.loads(text)
json_loads(text) ==
    IF text.fenced \/ text.body \in NotJson THEN JSONDecodeError ELSE text.body

\* text.replace("```json", "").replace("```", "").strip()
StripFence(text) == [text EXCEPT !.fenced = FALSE]

\* a variant without the try around the model call and json.loads
VisionReturnUnguarded(img, reply) ==
    IF img = PyNone THEN PyNone
    ELSE IF reply \in Exceptions THEN reply ELSE json_loads(reply)

\* run_gemini_vision after load_image_from_url: `if not img: return None`, then
\* try: response = model.generate_content(...); return json.loads(response.text)
VisionReturn(img, reply) ==
    IF img = PyNone THEN PyNone
    ELSE TryOrNone(IF reply \in Exceptions THEN reply ELSE json_loads(reply))

\* run_gemini_music after load_image_from_url: the same, with
\* res = json.loads(<text without fences>); return res if not isinstance(res, list) else res[0]
MusicReturn(img, reply) ==
    IF img = PyNone THEN PyNone
    ELSE TryOrNone(
           IF reply \in Exceptions THEN reply
           ELSE LET res == json_loads(StripFence(reply))
                IN IF res \in Exceptions THEN res
                   ELSE IF res.py # "list" THEN res
                   ELSE IF res.items = <<>> THEN IndexError
                   ELSE res.items[1])

\* what process_ai_logic can tell of a returned value: `if res:` and `res.get(key)`
Seen(v) ==
    IF ~Truthy(v) THEN GwNone
    ELSE IF v.py = "dict" THEN GwDict(v.val)
    ELSE GwBad

run_gemini_vision ==
    {Seen(VisionReturn(load_image_from_url(url), reply)) : url \in Urls, reply \in Replies}

run_gemini_music ==
    {Seen(MusicReturn(load_image_from_url(url), reply)) : url \in Urls, reply \in Replies}

\* gw: one call of a gateway function: the function, its image_url, the
\* answer Gemini will give, the image once loaded and the value returned
PyUnset == PyValue("unset", Missing, <<>>)

NoGw ==
    [pc |-> "idle", fn |-> "none", image_url |-> "none", reply |-> PyUnset,
     img |-> PyUnset, result |-> PyUnset]

GatewayFunctions == {"run_gemini_vision", "run_gemini_music"}

\* img = load_image_from_url(image_url); if not img: return None
LoadImage ==
    /\ gw.pc = "load"
    /\ LET img == load_image_from_url(gw.image_url)
       IN gw' = IF img = PyNone
                THEN [gw EXCEPT !.img = img, !.result = PyNone, !.pc = "done"]
                ELSE [gw EXCEPT !.img = img, !.pc = "generate"]
    /\ UNCHANGED <<posts, inv, sweep, origin, hist, cycle, web, bulk>>

\* the prompt, model.generate_content and the parsing of its answer
Generate ==
    /\ gw.pc = "generate"
    /\ gw' = [gw EXCEPT !.pc = "done",
                        !.result = IF gw.fn = "run_gemini_vision"
                                   THEN VisionReturn(gw.img, gw.reply)
                                   ELSE MusicReturn(gw.img, gw.reply)]
    /\ UNCHANGED <<posts, inv, sweep, origin, hist, cycle, web, bulk>>

\* dict.get(key, default)
DictGet(res, default) == IF res.val = Missing THEN default ELSE res.val

\* the call was made
Called(res) == res.kind # "unset"

\* the call returned a dict with a non-empty text under the key
Succeeded(res) == res.kind = "dict" /\ res.val \in Values


(***************************************************************************)
(* The UPDATE statements of process_ai_logic, applied to the row.          *)
(***************************************************************************)
\* a variant of the force statement that still spares a filled column
UpdateOnlyIfEmpty(row, col, val) ==
    IF row[col] = NULL \/ row[col] = "" THEN [row EXCEPT ![col] = val] ELSE row

\* UPDATE posts SET col = %s WHERE id = %s
UpdateUnconditional(row, col, val) == [row EXCEPT ![col] = val]

\* a variant of the safe statement without its WHERE guard on the column
UpdateIgnoringGuard(row, col, val) == [row EXCEPT ![col] = val]

\* UPDATE posts SET col = %s WHERE id = %s AND (col IS NULL OR col = '')
UpdateIfStillEmpty(row, col, val) ==
    IF SqlEmpty(row[col]) THEN [row EXCEPT ![col] = val] ELSE row

\* a variant that never picks the unconditional statement
ExecuteUpdateAlwaysSafe(row, col, val, force) ==
    IF SqlEmpty(row[col]) THEN [row EXCEPT ![col] = val] ELSE row

\* the statement process_ai_logic picks by force_update
ExecuteUpdate(row, col, val, force) ==
    IF force THEN UpdateUnconditional(row, col, val)
             ELSE UpdateIfStillEmpty(row, col, val)

\* cursor.rowcount after the UPDATE: the rows it changed
RowCount(before, after) == IF before = after THEN 0 ELSE 1

(***************************************************************************)
(* The frame of one process_ai_logic invocation, and the history of an     *)
(* observed one. hist is a history variable: Init chooses the contexts it  *)
(* observes (DOMAIN hist), and for those it keeps what the last invocation *)
(* got from Gemini, what it caught, what it raised and the rowcount of     *)
(* its UPDATEs (-1: not executed), after the Python locals are gone. No    *)
(* action reads it to decide.                                              *)
(***************************************************************************)
NoData == [ai_summary |-> Unset, music_prompt |-> Unset]

Idle ==
    [pc |-> "idle", post_id |-> 0, force_update |-> FALSE,
     description |-> NULL, tags |-> NULL,
     current_data |-> NoData, summary |-> Unset, prompt |-> Unset]

\* the call process_ai_logic(post_id, ..., description, tags, force_update)
Call(post_id, description, tags, force_update) ==
    [Idle EXCEPT !.pc = "connect", !.post_id = post_id,
                 !.force_update = force_update,
                 !.description = description, !.tags = tags]

\* `finally: cursor.close(); conn.close()` and the return: the locals are gone
Settle(f) == IF f.pc = "finally" THEN [Idle EXCEPT !.pc = "returned"] ELSE f

NoHist ==
    [post_id |-> 0, force_update |-> FALSE,
     vision_res |-> NotCalled, music_res |-> NotCalled, desc_text |-> Unset,
     caught |-> "no", raised |-> "no", rows_summary |-> -1, rows_prompt |-> -1]

Observed(p) == p \in DOMAIN hist

\* hist with the entry of p (when observed) changed by the record `change`
Note(p, change) ==
    IF Observed(p)
    THEN [hist EXCEPT ![p] = [k \in DOMAIN @ |->
                                 IF k \in DOMAIN change THEN change[k] ELSE @[k]]]
    ELSE hist

\* hist when context p starts the call f
NoteCall(p, f) ==
    IF Observed(p)
    THEN [hist EXCEPT ![p] = [NoHist EXCEPT !.post_id = f.post_id,
                                            !.force_update = f.force_update]]
    ELSE hist

\* hist once the caller of p's invocation has taken note of how it went
Forget(p) == IF Observed(p) THEN [hist EXCEPT ![p] = NoHist] ELSE hist

\* what `res.get(...)` raises on a truthy result that is no dict; caught by
\* `except Exception as e` at the end of process_ai_logic
Raised(res) == IF res.kind = "bad" THEN "AttributeError" ELSE "no"

\* a variant that reads a key Gemini's answer does not have
GetSummaryWrongKey(vision_res) == ""

\* summary = vision_res.get('art_review', '')
GetSummary(vision_res) == DictGet(vision_res, "")

\* prompt = music_res.get('music_prompt')
GetPrompt(music_res) == DictGet(music_res, NULL)

\* a variant that decides from the ai_summary the calling endpoint had read
SummaryWantedByCaller(f) == Falsy(web.seen) \/ f.force_update

\* `if not current_data['ai_summary'] or force_update`
SummaryWanted(f) == Falsy(f.current_data.ai_summary) \/ f.force_update

\* `if not current_data['music_prompt'] or force_update`
PromptWanted(f) == Falsy(f.current_data.music_prompt) \/ f.force_update

\* a variant in which a request to analyze_art stops after the summary block
AfterSummaryByEndpoint(f) ==
    IF web.endpoint = "analyze_art" THEN "finally"
    ELSE IF PromptWanted(f) THEN "music" ELSE "finally"

\* a variant that returns once the summary block is over
AfterSummaryReturns(f) == "finally"

\* where control goes when the summary block is over
AfterSummary(f) == IF PromptWanted(f) THEN "music" ELSE "finally"

\* where control goes after the SELECT found the row
AfterSelect(f) == IF SummaryWanted(f) THEN "vision" ELSE AfterSummary(f)

\* desc_text = description or current_data['ai_summary'] or "예술 작품"
DescText(f) == Or(f.description, Or(f.current_data.ai_summary, GenericText))

(***************************************************************************)
(* process_ai_logic, one action per step.                                  *)
(***************************************************************************)
\* conn = get_db_connection(); cursor = conn.cursor(dictionary=True)
ConnectOk(p) ==
    /\ inv[p].pc = "connect"
    /\ inv' = [inv EXCEPT ![p].pc = "select"]
    /\ UNCHANGED <<posts, hist>>

\* get_db_connection() raises: it stands before the try, so the exception
\* leaves process_ai_logic
ConnectFails(p) ==
    /\ inv[p].pc = "connect"
    /\ inv' = [inv EXCEPT ![p] = [Idle EXCEPT !.pc = "raised"]]
    /\ hist' = Note(p, [raised |-> "mysql.Error"])
    /\ UNCHANGED posts

\* a variant without `if not current_data: return`: a row that is absent reads as empty
SelectAssumesRow(p) ==
    /\ inv[p].pc = "select"
    /\ LET f == inv[p]
           id == f.post_id
           h == [f EXCEPT !.current_data =
                    IF id \in DOMAIN posts
                    THEN [ai_summary |-> posts[id].ai_summary,
                          music_prompt |-> posts[id].music_prompt]
                    ELSE [ai_summary |-> NULL, music_prompt |-> NULL]]
       IN inv' = [inv EXCEPT ![p] = Settle([h EXCEPT !.pc = AfterSelect(h)])]
    /\ UNCHANGED <<posts, hist>>

\* SELECT ai_summary, music_prompt FROM posts WHERE id = %s; `if not current_data: return`
Select(p) ==
    /\ inv[p].pc = "select"
    /\ LET f == inv[p]
           id == f.post_id
           g == IF id \notin DOMAIN posts
                THEN [f EXCEPT !.pc = "finally"]
                ELSE LET h == [f EXCEPT !.current_data =
                                    [ai_summary |-> posts[id].ai_summary,
                                     music_prompt |-> posts[id].music_prompt]]
                     IN [h EXCEPT !.pc = AfterSelect(h)]
       IN inv' = [inv EXCEPT ![p] = Settle(g)]
    /\ UNCHANGED <<posts, hist>>

\* a statement (or its commit) raises inside the try: caught by `except Exception`
StatementFails(p) ==
    /\ inv[p].pc \in {"select", "upd_summary", "upd_prompt"}
    /\ inv' = [inv EXCEPT ![p] = Settle([@ EXCEPT !.pc = "finally"])]
    /\ hist' = Note(p, [caught |-> "mysql.Error"])
    /\ UNCHANGED posts

\* a variant without `if vision_res:`: an absent answer is stored as NULL
VisionStoresAbsent(p) ==
    /\ inv[p].pc = "vision"
    /\ \E r \in run_gemini_vision :
          LET new == IF r.kind = "dict" THEN GetSummary(r) ELSE NULL
              g == [inv[p] EXCEPT !.summary = new]
              next == IF r.kind = "bad" THEN "finally" ELSE "upd_summary"
          IN /\ inv' = [inv EXCEPT ![p] = Settle([g EXCEPT !.pc = next])]
             /\ hist' = Note(p, [vision_res |-> r, caught |-> Raised(r)])
    /\ UNCHANGED posts

\* vision_res = run_gemini_vision(...); `if vision_res:` and the .get that follows
Vision(p) ==
    /\ inv[p].pc = "vision"
    /\ \E r \in run_gemini_vision :
          LET new == IF r.kind = "dict" THEN GetSummary(r) ELSE Unset
              g == [inv[p] EXCEPT !.summary = new]
              next == CASE r.kind = "none" -> AfterSummary(g)
                        [] r.kind = "bad" -> "finally"
                        [] OTHER -> "upd_summary"
          IN /\ inv' = [inv EXCEPT ![p] = Settle([g EXCEPT !.pc = next])]
             /\ hist' = Note(p, [vision_res |-> r, caught |-> Raised(r)])
    /\ UNCHANGED posts

\* a variant whose statement has no `WHERE id = %s`
UpdateSummaryEveryRow(p) ==
    /\ inv[p].pc = "upd_summary"
    /\ LET f == inv[p]
           id == f.post_id
           g == [f EXCEPT !.current_data.ai_summary = f.summary]
       IN /\ posts' = [i \in DOMAIN posts |->
                         ExecuteUpdate(posts[i], "ai_summary", f.summary, f.force_update)]
          /\ inv' = [inv EXCEPT ![p] = Settle([g EXCEPT !.pc = AfterSummary(g)])]
          /\ hist' = Note(p, [rows_summary |-> RowCount(posts[id], posts'[id])])

\* cursor.execute(sql, (summary, post_id)); conn.commit(); current_data['ai_summary'] = summary
UpdateSummary(p) ==
    /\ inv[p].pc = "upd_summary"
    /\ LET f == inv[p]
           id == f.post_id
           g == [f EXCEPT !.current_data.ai_summary = f.summary]
       IN /\ posts' = [posts EXCEPT ![id] =
                         ExecuteUpdate(@, "ai_summary", f.summary, f.force_update)]
          /\ inv' = [inv EXCEPT ![p] = Settle([g EXCEPT !.pc = AfterSummary(g)])]
          /\ hist' = Note(p, [rows_summary |-> RowCount(posts[id], posts'[id])])

\* music_res = run_gemini_music(image_url, desc_text, ...); `if music_res:` and the .get
Music(p) ==
    /\ inv[p].pc = "music"
    /\ \E r \in run_gemini_music :
          LET new == IF r.kind = "dict" THEN GetPrompt(r) ELSE Unset
              g == [inv[p] EXCEPT !.prompt = new]
              next == IF r.kind = "dict" THEN "upd_prompt" ELSE "finally"
          IN /\ inv' = [inv EXCEPT ![p] = Settle([g EXCEPT !.pc = next])]
             /\ hist' = Note(p, [music_res |-> r, desc_text |-> DescText(inv[p]),
                                 caught |-> Raised(r)])
    /\ UNCHANGED posts

\* a variant whose force statement keeps a music_prompt that is already filled
UpdatePromptGuarded(p) ==
    /\ inv[p].pc = "upd_prompt"
    /\ LET f == inv[p]
           id == f.post_id
       IN /\ posts' = [posts EXCEPT ![id] =
                         UpdateIfStillEmpty(@, "music_prompt", f.prompt)]
          /\ inv' = [inv EXCEPT ![p] = Settle([f EXCEPT !.pc = "finally"])]
          /\ hist' = Note(p, [rows_prompt |-> RowCount(posts[id], posts'[id])])

\* cursor.execute(sql, (prompt, post_id)); conn.commit()
UpdatePrompt(p) ==
    /\ inv[p].pc = "upd_prompt"
    /\ LET f == inv[p]
           id == f.post_id
       IN /\ posts' = [posts EXCEPT ![id] =
                         ExecuteUpdate(@, "music_prompt", f.prompt, f.force_update)]
          /\ inv' = [inv EXCEPT ![p] = Settle([f EXCEPT !.pc = "finally"])]
          /\ hist' = Note(p, [rows_prompt |-> RowCount(posts[id], posts'[id])])

process_ai_logic(p) ==
    /\ \/ ConnectOk(p)
       \/ ConnectFails(p)
       \/ Select(p)
       \/ StatementFails(p)
       \/ Vision(p)
       \/ UpdateSummary(p)
       \/ Music(p)
       \/ UpdatePrompt(p)
    /\ UNCHANGED <<sweep, origin, cycle, web, gw, bulk>>

(***************************************************************************)
(* The posts table.                                                        *)
(***************************************************************************)
\* the row INSERT INTO posts (...) creates: the AI columns and music_url are NULL
NewRow(description, tags) ==
    [ai_summary |-> NULL, music_prompt |-> NULL, music_url |-> NULL,
     description |-> description, tags |-> tags]

\* a variant of the WHERE clause that looks at ai_summary alone
IncompleteSummaryOnly(row) == row.ai_summary = NULL

\* WHERE ai_summary IS NULL OR music_prompt IS NULL
Incomplete(row) == row.ai_summary = NULL \/ row.music_prompt = NULL

\* the ids that SELECT * FROM posts WHERE ai_summary IS NULL OR music_prompt IS NULL returns
empty_posts == {id \in DOMAIN posts : Incomplete(posts[id])}

\* the orders in which a SELECT without ORDER BY can return the rows `ids`
Orders(ids) ==
    {o \in [1..Cardinality(ids) -> ids] : \A i, j \in DOMAIN o : i # j => o[i] # o[j]}

(***************************************************************************)
(* periodic_sync_task: the 30 second sweeper. cycle is a history variable, *)
(* kept when the sweeper is observed: the posts the cycle selected, those  *)
(* it called process_ai_logic for, and how each call went.                 *)
(***************************************************************************)
Sweeper == <<"sweeper", 0>>

Asleep == [pc |-> "sleep", batch |-> <<>>]

NoCycle ==
    [ended |-> "no", selected |-> <<>>, all_fresh |-> FALSE, invoked |-> {}, clean |-> {},
     gateway_failed |-> {}, store_failed |-> FALSE]

\* a post as create_post leaves it: no AI column filled
Fresh(row) == row.ai_summary = NULL /\ row.music_prompt = NULL

\* every Gemini call the invocation made returned a non-empty text, and nothing was caught
Clean(h) ==
    /\ h.caught = "no"
    /\ Called(h.vision_res) => Succeeded(h.vision_res)
    /\ Called(h.music_res) => Succeeded(h.music_res)

\* no Gemini call the invocation made returned a usable text, and no statement failed
GatewayFailed(h) ==
    /\ h.caught # "mysql.Error"
    /\ Called(h.vision_res) \/ Called(h.music_res)
    /\ ~Succeeded(h.vision_res)
    /\ ~Succeeded(h.music_res)

Record(c) == IF Observed(Sweeper) THEN c ELSE cycle

\* a variant whose SELECT takes only the posts no invocation has written to
ScanFreshOnly ==
    /\ sweep.pc = "sleep"
    /\ \E o \in Orders({id \in DOMAIN posts : Fresh(posts[id])}) :
          /\ sweep' = [pc |-> "dispatch", batch |-> o]
          /\ cycle' = Record([NoCycle EXCEPT
                !.selected = o,
                !.all_fresh = \A id \in DOMAIN posts : Fresh(posts[id])])
    /\ UNCHANGED <<posts, inv, origin, hist, web, gw, bulk>>

\* await asyncio.sleep(30); conn = get_db_connection(); the SELECT; fetchall()
Scan ==
    /\ sweep.pc = "sleep"
    /\ \E o \in Orders(empty_posts) :
          /\ sweep' = [pc |-> "dispatch", batch |-> o]
          /\ cycle' = Record([NoCycle EXCEPT
                !.selected = o,
                !.all_fresh = \A id \in DOMAIN posts : Fresh(posts[id])])
    /\ UNCHANGED <<posts, inv, origin, hist, web, gw, bulk>>

\* the connection or the SELECT raises: `except Exception`, and the loop goes round
ScanFails ==
    /\ sweep.pc = "sleep"
    /\ cycle' = Record([NoCycle EXCEPT !.ended = "aborted", !.store_failed = TRUE])
    /\ UNCHANGED <<posts, inv, sweep, origin, hist, web, gw, bulk>>

\* `for post in empty_posts: process_ai_logic(post['id'], ..., False)`
Dispatch ==
    /\ sweep.pc = "dispatch"
    /\ sweep.batch # <<>>
    /\ inv[Sweeper].pc = "idle"
    /\ LET id == Head(sweep.batch)
           f == Call(id, posts[id].description, posts[id].tags, FALSE)
       IN /\ inv' = [inv EXCEPT ![Sweeper] = f]
          /\ hist' = NoteCall(Sweeper, f)
          /\ cycle' = Record([cycle EXCEPT !.invoked = @ \cup {id}])
    /\ UNCHANGED <<posts, sweep, origin, web, gw, bulk>>

\* a variant of the loop that breaks after a post Gemini gave nothing for
NextPostBreaks ==
    /\ sweep.pc = "dispatch"
    /\ inv[Sweeper].pc = "returned"
    /\ inv' = [inv EXCEPT ![Sweeper] = Idle]
    /\ sweep' = [sweep EXCEPT !.batch =
                    IF GatewayFailed(hist[Sweeper]) THEN <<>> ELSE Tail(@)]
    /\ cycle' = Record([cycle EXCEPT
          !.clean = IF Clean(hist[Sweeper]) THEN @ \cup {hist[Sweeper].post_id} ELSE @,
          !.gateway_failed =
              IF GatewayFailed(hist[Sweeper]) THEN @ \cup {hist[Sweeper].post_id} ELSE @,
          !.store_failed = @ \/ hist[Sweeper].caught = "mysql.Error"])
    /\ hist' = Forget(Sweeper)
    /\ UNCHANGED <<posts, origin, web, gw, bulk>>

\* process_ai_logic returned: the loop takes the next post
NextPost ==
    /\ sweep.pc = "dispatch"
    /\ inv[Sweeper].pc = "returned"
    /\ inv' = [inv EXCEPT ![Sweeper] = Idle]
    /\ sweep' = [sweep EXCEPT !.batch = Tail(@)]
    /\ cycle' = Record([cycle EXCEPT
          !.clean = IF Clean(hist[Sweeper]) THEN @ \cup {hist[Sweeper].post_id} ELSE @,
          !.gateway_failed =
              IF GatewayFailed(hist[Sweeper]) THEN @ \cup {hist[Sweeper].post_id} ELSE @,
          !.store_failed = @ \/ hist[Sweeper].caught = "mysql.Error"])
    /\ hist' = Forget(Sweeper)
    /\ UNCHANGED <<posts, origin, web, gw, bulk>>

\* a variant whose try stands around the `while True`: the exception ends the task
AbortEndsTask ==
    /\ sweep.pc = "dispatch"
    /\ inv[Sweeper].pc = "raised"
    /\ inv' = [inv EXCEPT ![Sweeper] = Idle]
    /\ sweep' = [pc |-> "done", batch |-> <<>>]
    /\ cycle' = Record([cycle EXCEPT !.ended = "aborted"])
    /\ hist' = Forget(Sweeper)
    /\ UNCHANGED <<posts, origin, web, gw, bulk>>

\* process_ai_logic raised: the exception leaves the for loop for `except Exception`
Abort ==
    /\ sweep.pc = "dispatch"
    /\ inv[Sweeper].pc = "raised"
    /\ inv' = [inv EXCEPT ![Sweeper] = Idle]
    /\ sweep' = Asleep
    /\ cycle' = Record([cycle EXCEPT
          !.ended = "aborted",
          !.store_failed = @ \/ hist[Sweeper].raised = "mysql.Error"])
    /\ hist' = Forget(Sweeper)
    /\ UNCHANGED <<posts, origin, web, gw, bulk>>

\* the loop is over (or empty_posts was empty): cursor.close(); conn.close()
EndCycle ==
    /\ sweep.pc = "dispatch"
    /\ sweep.batch = <<>>
    /\ inv[Sweeper].pc = "idle"
    /\ sweep' = Asleep
    /\ cycle' = Record([cycle EXCEPT !.ended = "completed"])
    /\ UNCHANGED <<posts, inv, origin, hist, web, gw, bulk>>

periodic_sync_task ==
    \/ Scan
    \/ ScanFails
    \/ Dispatch
    \/ NextPost
    \/ Abort
    \/ EndCycle
    \/ process_ai_logic(Sweeper)

(***************************************************************************)
(* create_post and its background task; analyze_art and                    *)
(* generate_music_prompt, the manual endpoints. Background tasks and sync  *)
(* endpoints run on the worker threads of the server's pool; Spec gives    *)
(* the pool one thread.                                                    *)
(***************************************************************************)
Pool == <<"pool", 0>>

\* the ids create_post can give in Spec
PostIds == {1}

\* the texts a creator may send (Form(None) when left out)
Descriptions == {NULL, "d1"}

Tags == {NULL, "t1"}

\* web: create_post between its commit and its add_task (creating: the new
\* id, 0 when none) and the ids it has answered with (created); the manual
\* endpoint between its two SELECTs (pc, endpoint, post_id, and seen: the
\* column it answers with, as its first SELECT read it); response is a
\* history field: the last answer of a manual endpoint. seen serves only to
\* compute response, and both are kept only when the pool is observed.
NoWeb ==
    [creating |-> 0, created |-> {},
     pc |-> "idle", endpoint |-> "none", post_id |-> 0, seen |-> Unset,
     response |-> Unset]

\* what is left of a request of a manual endpoint that has answered `value`
Answered(value) ==
    [web EXCEPT !.pc = "idle", !.endpoint = "none", !.post_id = 0, !.seen = Unset,
                !.response = IF Observed(Pool) THEN value ELSE @]

\* the answer of a request that ended with an exception
Http500 == "<500>"

\* bulk: sync_missing_ai_data between its SELECT and its answer: what is left
\* of empty_posts (batch); selected and invoked are history fields, kept
\* while the request is served: the rows the SELECT returned and the posts
\* process_ai_logic was called for, in order; response is the last answer
NoBulk ==
    [pc |-> "idle", batch |-> <<>>, selected |-> <<>>, invoked |-> <<>>,
     response |-> Unset]

\* cursor.execute(INSERT INTO posts ...); conn.commit(); new_post_id = cursor.lastrowid
\* create_post is `async def`: it runs on the event loop, which the sweeper
\* holds from its SELECT to the end of its for loop
Insert ==
    \E description \in Descriptions, tags \in Tags :
       LET new_post_id == Cardinality(DOMAIN posts) + 1
       IN /\ new_post_id \in PostIds
          /\ sweep.pc = "sleep"
          /\ web.creating = 0
          /\ posts' = posts @@ (new_post_id :> NewRow(description, tags))
          /\ web' = [web EXCEPT !.creating = new_post_id]
          /\ UNCHANGED <<inv, sweep, origin, hist, cycle, gw, bulk>>

\* a create_post that schedules the task for the id it is about to insert
AddTaskBeforeCommit ==
    /\ sweep.pc = "sleep"
    /\ inv[Pool].pc = "idle"
    /\ web.pc = "idle"
    /\ LET new_post_id == IF web.creating # 0 THEN web.creating
                          ELSE Cardinality(DOMAIN posts) + 1
           f == Call(new_post_id, NULL, NULL, TRUE)
       IN /\ inv' = [inv EXCEPT ![Pool] = f]
          /\ hist' = NoteCall(Pool, f)
          /\ web' = [web EXCEPT !.creating = 0, !.created = @ \cup {new_post_id}]
    /\ UNCHANGED <<posts, sweep, origin, cycle, gw, bulk>>

\* background_tasks.add_task(process_ai_logic, new_post_id, ..., True);
\* return {..., "id": new_post_id}; the task starts on a thread of the pool
\* once the response is sent
AddTask ==
    /\ web.creating # 0
    /\ sweep.pc = "sleep"
    /\ inv[Pool].pc = "idle"
    /\ web.pc = "idle"
    /\ LET new_post_id == web.creating
           f == Call(new_post_id, posts[new_post_id].description,
                     posts[new_post_id].tags, TRUE)
       IN /\ inv' = [inv EXCEPT ![Pool] = f]
          /\ hist' = NoteCall(Pool, f)
          /\ web' = [web EXCEPT !.creating = 0, !.created = @ \cup {new_post_id}]
    /\ UNCHANGED <<posts, sweep, origin, cycle, gw, bulk>>

create_post == Insert \/ AddTask

\* process_ai_logic is over, returned or raised: the background task ends
\* and the thread is free again
PoolDone ==
    /\ web.pc = "idle"
    /\ inv[Pool].pc \in {"returned", "raised"}
    /\ inv' = [inv EXCEPT ![Pool] = Idle]
    /\ UNCHANGED <<posts, sweep, origin, hist, cycle, web, gw, bulk>>

\* the column a manual endpoint answers with
Column(endpoint) == IF endpoint = "analyze_art" THEN "ai_summary" ELSE "music_prompt"

\* SELECT * FROM posts WHERE id = %s; process_ai_logic(post['id'], ..., force_update)
ManualCall(endpoint) ==
    \E post_id \in DOMAIN posts, force_update \in BOOLEAN :
       LET f == Call(post_id, posts[post_id].description, posts[post_id].tags,
                     force_update)
       IN /\ web.pc = "idle"
          /\ inv[Pool].pc = "idle"
          /\ inv' = [inv EXCEPT ![Pool] = f]
          /\ hist' = NoteCall(Pool, f)
          /\ web' = [web EXCEPT !.pc = "called", !.endpoint = endpoint,
                                !.post_id = post_id,
                                !.seen = IF Observed(Pool)
                                         THEN posts[post_id][Column(endpoint)]
                                         ELSE @,
                                !.response = Unset]
          /\ UNCHANGED <<posts, sweep, origin, cycle, gw, bulk>>

\* what the second SELECT of the endpoint can read. The connection was opened
\* with the connector's default autocommit off, so both SELECTs are in one
\* transaction: under REPEATABLE READ (the server's default) the second reads
\* the snapshot of the first, under READ COMMITTED the row as it is now.
SecondSelect ==
    {web.seen, posts[web.post_id][Column(web.endpoint)]}

\* process_ai_logic returned: cursor.execute(SELECT <column> ...);
\* return {"message": "완료", <column>: updated_post[<column>]}
ManualAnswer(endpoint) ==
    /\ web.pc = "called"
    /\ web.endpoint = endpoint
    /\ inv[Pool].pc = "returned"
    /\ \E value \in SecondSelect : web' = Answered(value)
    /\ inv' = [inv EXCEPT ![Pool] = Idle]
    /\ hist' = Forget(Pool)
    /\ UNCHANGED <<posts, sweep, origin, cycle, gw, bulk>>

\* process_ai_logic raised: the exception leaves the endpoint through its finally
ManualRaises(endpoint) ==
    /\ web.pc = "called"
    /\ web.endpoint = endpoint
    /\ inv[Pool].pc = "raised"
    /\ web' = Answered(Http500)
    /\ inv' = [inv EXCEPT ![Pool] = Idle]
    /\ hist' = Forget(Pool)
    /\ UNCHANGED <<posts, sweep, origin, cycle, gw, bulk>>

analyze_art ==
    \/ ManualCall("analyze_art")
    \/ ManualAnswer("analyze_art")
    \/ ManualRaises("analyze_art")

generate_music_prompt ==
    \/ ManualCall("generate_music_prompt")
    \/ ManualAnswer("generate_music_prompt")
    \/ ManualRaises("generate_music_prompt")

(***************************************************************************)
(* register_music_url                                                      *)
(***************************************************************************)
MusicUrls == {"u1"}

\* UPDATE posts SET music_url = %s WHERE id = %s
register_music_url ==
    \E post_id \in DOMAIN posts, music_url \in MusicUrls :
       /\ posts' = [posts EXCEPT ![post_id].music_url = music_url]
       /\ UNCHANGED <<inv, sweep, origin, hist, cycle, web, gw, bulk>>

(***************************************************************************)
(* sync_missing_ai_data: the bulk endpoint. It is a plain `def`: the       *)
(* request runs on a thread of the pool, beside the event loop and the     *)
(* sweeper on it.                                                          *)
(***************************************************************************)
Bulk == <<"bulk", 0>>

\* {"message": "최신 상태입니다."}
UpToDate == [status |-> 200, count |-> -1]
\* {"message": f"{len(empty_posts)}건 요청 완료"}
Requested(count) == [status |-> 200, count |-> count]
\* the request ended with an exception
BulkError == [status |-> 500, count |-> -1]

\* conn = get_db_connection(); the SELECT; fetchall(); `if not empty_posts: return`
BulkScan ==
    /\ bulk.pc = "idle"
    /\ \E o \in Orders(empty_posts) :
          bulk' = IF o = <<>>
                  THEN [NoBulk EXCEPT !.response = UpToDate]
                  ELSE [NoBulk EXCEPT !.pc = "dispatch", !.batch = o, !.selected = o]
    /\ UNCHANGED <<posts, inv, sweep, origin, hist, cycle, web, gw>>

\* the connection or the SELECT raises: nothing catches it
BulkScanFails ==
    /\ bulk.pc = "idle"
    /\ bulk' = [NoBulk EXCEPT !.response = BulkError]
    /\ UNCHANGED <<posts, inv, sweep, origin, hist, cycle, web, gw>>

\* `for post in empty_posts: process_ai_logic(post['id'], ..., False)`
BulkDispatch ==
    /\ bulk.pc = "dispatch"
    /\ bulk.batch # <<>>
    /\ inv[Bulk].pc = "idle"
    /\ LET id == Head(bulk.batch)
           f == Call(id, posts[id].description, posts[id].tags, FALSE)
       IN /\ inv' = [inv EXCEPT ![Bulk] = f]
          /\ hist' = NoteCall(Bulk, f)
          /\ bulk' = [bulk EXCEPT !.invoked = Append(@, id)]
    /\ UNCHANGED <<posts, sweep, origin, cycle, web, gw>>

\* process_ai_logic returned: the loop takes the next post
BulkNextPost ==
    /\ bulk.pc = "dispatch"
    /\ inv[Bulk].pc = "returned"
    /\ inv' = [inv EXCEPT ![Bulk] = Idle]
    /\ bulk' = [bulk EXCEPT !.batch = Tail(@)]
    /\ UNCHANGED <<posts, sweep, origin, hist, cycle, web, gw>>

\* process_ai_logic raised: the exception leaves the loop and the endpoint
BulkRaises ==
    /\ bulk.pc = "dispatch"
    /\ inv[Bulk].pc = "raised"
    /\ inv' = [inv EXCEPT ![Bulk] = Idle]
    /\ bulk' = [NoBulk EXCEPT !.response = BulkError]
    /\ UNCHANGED <<posts, sweep, origin, hist, cycle, web, gw>>

\* the loop is over: return {"message": f"{len(empty_posts)}건 요청 완료"}
BulkAnswer ==
    /\ bulk.pc = "dispatch"
    /\ bulk.batch = <<>>
    /\ inv[Bulk].pc = "idle"
    /\ bulk' = [NoBulk EXCEPT !.response = Requested(Len(bulk.selected))]
    /\ UNCHANGED <<posts, inv, sweep, origin, hist, cycle, web, gw>>

sync_missing_ai_data ==
    \/ BulkScan
    \/ BulkScanFails
    \/ BulkDispatch
    \/ BulkNextPost
    \/ BulkRaises
    \/ BulkAnswer
    \/ process_ai_logic(Bulk)

(***************************************************************************)
(* Spec: the server. The table is empty at start-up; a post is created,    *)
(* and its background task or the manual endpoints run concurrently with   *)
(* the sweeper. Nothing is observed.                                       *)
(***************************************************************************)
Nobody == [p \in {} |-> NoHist]

Init ==
    /\ posts = [id \in {} |-> NewRow(NULL, NULL)]
    /\ inv = [c \in {Pool, Sweeper} |-> Idle]
    /\ sweep = Asleep
    /\ origin = posts
    /\ hist = Nobody
    /\ cycle = NoCycle
    /\ web = NoWeb
    /\ gw = NoGw
    /\ bulk = NoBulk

Next ==
    \/ create_post
    \/ analyze_art
    \/ generate_music_prompt
    \/ PoolDone
    \/ process_ai_logic(Pool)
    \/ register_music_url
    \/ periodic_sync_task

Spec == Init /\ [][Next]_vars

(***************************************************************************)
(* SweepSpec: the sweeper alone, observed, on NumRecords posts that were   *)
(* created without their AI columns.                                       *)
(***************************************************************************)
SweepInit ==
    /\ posts = [id \in 1..NumRecords |-> NewRow(NULL, NULL)]
    /\ inv = (Sweeper :> Idle)
    /\ sweep = Asleep
    /\ origin = posts
    /\ hist = (Sweeper :> NoHist)
    /\ cycle = NoCycle
    /\ web = NoWeb
    /\ gw = NoGw
    /\ bulk = NoBulk

SweepNext == periodic_sync_task

SweepSpec == SweepInit /\ [][SweepNext]_vars

(***************************************************************************)
(* LiveSpec: the sweeper alone, not observed, on NumRecords fresh posts.   *)
(* periodic_sync_task is `while True` around a try that catches            *)
(* everything, on the event loop on_startup started it on: the sweeper     *)
(* always takes its next step.                                             *)
(***************************************************************************)
LiveInit ==
    /\ posts = [id \in 1..NumRecords |-> NewRow(NULL, NULL)]
    /\ inv = (Sweeper :> Idle)
    /\ sweep = Asleep
    /\ origin = posts
    /\ hist = Nobody
    /\ cycle = NoCycle
    /\ web = NoWeb
    /\ gw = NoGw
    /\ bulk = NoBulk

Fairness == WF_vars(SweepNext)

LiveSpec == LiveInit /\ [][SweepNext]_vars /\ Fairness

(***************************************************************************)
(* RaceSpec: two observed invocations of process_ai_logic on one post,     *)
(* each with its own force flag, started together on any prior content.    *)
(***************************************************************************)
Racers == {<<"racer", 1>>, <<"racer", 2>>}

PriorContent == {NULL, "", Prior}

RaceInit ==
    /\ \E s \in PriorContent, m \in PriorContent :
          posts = (1 :> [NewRow(NULL, NULL) EXCEPT !.ai_summary = s, !.music_prompt = m])
    /\ \E force \in [Racers -> BOOLEAN] :
          /\ inv = [p \in Racers |-> Call(1, NULL, NULL, force[p])]
          /\ hist = [p \in Racers |-> [NoHist EXCEPT !.post_id = 1,
                                                      !.force_update = force[p]]]
    /\ sweep = Asleep
    /\ origin = posts
    /\ cycle = NoCycle
    /\ web = NoWeb
    /\ gw = NoGw
    /\ bulk = NoBulk

RaceNext == \E p \in Racers : process_ai_logic(p)

RaceSpec == RaceInit /\ [][RaceNext]_vars

(***************************************************************************)
(* EnrichSpec: one observed invocation of process_ai_logic, alone, for     *)
(* post 1: in either mode, on any prior content of the AI columns, with    *)
(* the description and tags its caller read from the row, or on a table    *)
(* the row has gone from since the caller read it.                         *)
(***************************************************************************)
Caller == <<"caller", 0>>

EnrichInit ==
    /\ \E description \in Descriptions, tags \in Tags, force_update \in BOOLEAN :
          /\ \/ \E s \in PriorContent, m \in PriorContent :
                   posts = (1 :> [NewRow(description, tags) EXCEPT
                                     !.ai_summary = s, !.music_prompt = m])
             \/ posts = [id \in {} |-> NewRow(NULL, NULL)]
          /\ inv = (Caller :> Call(1, description, tags, force_update))
          /\ hist = (Caller :> [NoHist EXCEPT !.post_id = 1,
                                              !.force_update = force_update])
    /\ sweep = Asleep
    /\ origin = posts
    /\ cycle = NoCycle
    /\ web = NoWeb
    /\ gw = NoGw
    /\ bulk = NoBulk

EnrichNext == process_ai_logic(Caller)

EnrichSpec == EnrichInit /\ [][EnrichNext]_vars


(***************************************************************************)
(* ManualSpec: requests to the manual endpoints for post 1, observed,     *)
(* starting from a post whose AI columns are still empty, while one safe   *)
(* invocation for the same post (a sweeper's, say) is under way.           *)
(***************************************************************************)
Other == <<"other", 0>>

ManualInit ==
    /\ posts = (1 :> NewRow(NULL, NULL))
    /\ inv = (Pool :> Idle) @@ (Other :> Call(1, NULL, NULL, FALSE))
    /\ hist = (Pool :> NoHist)
    /\ sweep = Asleep
    /\ origin = posts
    /\ cycle = NoCycle
    /\ web = NoWeb
    /\ gw = NoGw
    /\ bulk = NoBulk

ManualNext ==
    \/ analyze_art
    \/ generate_music_prompt
    \/ process_ai_logic(Pool)
    \/ process_ai_logic(Other)

ManualSpec == ManualInit /\ [][ManualNext]_vars

(***************************************************************************)
(* BulkSpec: requests to sync_missing_ai_data on BulkRecords posts that    *)
(* lack their music_prompt, and some of them their ai_summary too, while   *)
(* one invocation of the sweeper for post 1 is under way. Nothing but the  *)
(* request is observed.                                                    *)
(***************************************************************************)
BulkInit ==
    /\ \E filled \in SUBSET (1..BulkRecords) :
          posts = [id \in 1..BulkRecords |->
                     IF id \in filled
                     THEN [NewRow(NULL, NULL) EXCEPT !.ai_summary = Prior]
                     ELSE NewRow(NULL, NULL)]
    /\ inv = (Bulk :> Idle) @@ (Other :> Call(1, NULL, NULL, FALSE))
    /\ hist = Nobody
    /\ sweep = Asleep
    /\ origin = posts
    /\ cycle = NoCycle
    /\ web = NoWeb
    /\ gw = NoGw
    /\ bulk = NoBulk

BulkNext == sync_missing_ai_data \/ process_ai_logic(Other)

BulkSpec == BulkInit /\ [][BulkNext]_vars

(***************************************************************************)
(* GatewaySpec: one call of run_gemini_vision or run_gemini_music, on any  *)
(* image_url and any answer of Gemini.                                     *)
(***************************************************************************)
GatewayInit ==
    /\ \E fn \in GatewayFunctions, image_url \in Urls, reply \in Replies :
          gw = [NoGw EXCEPT !.pc = "load", !.fn = fn, !.image_url = image_url,
                            !.reply = reply]
    /\ posts = [id \in {} |-> NewRow(NULL, NULL)]
    /\ inv = [c \in {} |-> Idle]
    /\ hist = Nobody
    /\ sweep = Asleep
    /\ origin = posts
    /\ cycle = NoCycle
    /\ web = NoWeb
    /\ bulk = NoBulk

GatewayNext == LoadImage \/ Generate

GatewaySpec == GatewayInit /\ [][GatewayNext]_vars

(***************************************************************************)
(* FrameSpec: one observed invocation of process_ai_logic, in either mode, *)
(* for one post of a table of NumRecords posts that all hold the same      *)
(* prior content, while music URLs are registered.                         *)
(***************************************************************************)
PriorUrls == {NULL, "u0"}

FrameInit ==
    /\ \E s \in PriorContent, m \in PriorContent, u \in PriorUrls :
          posts = [id \in 1..NumRecords |->
                     [NewRow("d1", "t1") EXCEPT !.ai_summary = s, !.music_prompt = m,
                                                !.music_url = u]]
    /\ \E post_id \in 1..NumRecords, force_update \in BOOLEAN :
          /\ inv = (Caller :> Call(post_id, "d1", "t1", force_update))
          /\ hist = (Caller :> [NoHist EXCEPT !.post_id = post_id,
                                              !.force_update = force_update])
    /\ sweep = Asleep
    /\ origin = posts
    /\ cycle = NoCycle
    /\ web = NoWeb
    /\ gw = NoGw
    /\ bulk = NoBulk

FrameNext == process_ai_logic(Caller) \/ register_music_url

FrameSpec == FrameInit /\ [][FrameNext]_vars

(***************************************************************************)
(* The properties of the protection guard and of concurrent invocations    *)
(* (RaceSpec), of the values once stored (Spec), and of the sweeper        *)
(* (SweepSpec, LiveSpec).                                                  *)
(***************************************************************************)
Columns == {"ai_summary", "music_prompt"}

NonEmpty(x) == x # NULL /\ x # ""

Enriched(row) == row.ai_summary # NULL /\ row.music_prompt # NULL

\* the pc at which an invocation executes its UPDATE of col
UpdatePc(col) == IF col = "ai_summary" THEN "upd_summary" ELSE "upd_prompt"

\* the invocation of context p is over
Over(p) == inv[p].pc = "returned"

\* C1 (protection, I1): a stored AI column that holds a non-empty value
\* changes only in the UPDATE step of an invocation with force_update set;
\* no step of a safe invocation modifies it, however the steps interleave.
C1_Protection ==
    [][\A id \in DOMAIN posts, col \in Columns :
          (NonEmpty(posts[id][col]) /\ posts'[id][col] # posts[id][col])
             => \E p \in DOMAIN inv :
                   /\ inv[p].force_update
                   /\ inv[p].post_id = id
                   /\ inv[p].pc = UpdatePc(col)
                   /\ inv'[p] # inv[p]]_vars

\* a safe invocation read the summary empty, got a text from Gemini, and its
\* UPDATE matched no row because the other invocation had filled the column
C1_SafeWriteRefused ==
    \E p \in Racers :
       /\ ~hist[p].force_update
       /\ Succeeded(hist[p].vision_res)
       /\ hist[p].rows_summary = 0
       /\ NonEmpty(posts[1].ai_summary)
       /\ posts[1].ai_summary # hist[p].vision_res.val

\* C2 (values never lost): a stored AI column that is non-empty never goes
\* back to empty or NULL.
C2_NeverBackToEmpty ==
    [][\A id \in DOMAIN posts, col \in Columns :
          NonEmpty(posts[id][col]) => NonEmpty(posts'[id][col])]_vars

\* C3 (concurrent-trigger safety): a force and a safe invocation on a fresh
\* post, all Gemini calls succeeding: when both are over each AI column holds
\* exactly one of the texts Gemini returned for it, never empty nor a mix.
C3_ConcurrentTriggerSafety ==
    \A F, S \in Racers :
       ( /\ hist[F].force_update /\ ~hist[S].force_update
         /\ Fresh(origin[1])
         /\ Over(F) /\ Over(S)
         /\ Clean(hist[F]) /\ Clean(hist[S]) )
       => /\ posts[1].ai_summary \in
                {hist[F].vision_res.val, hist[S].vision_res.val} \cap Values
          /\ posts[1].music_prompt \in
                {hist[F].music_res.val, hist[S].music_res.val} \cap Values

\* both are over on a fresh post, the safe one got other texts than the force
\* one and came second with its summary
C3_BothTriggeredFresh ==
    \E F, S \in Racers :
       /\ hist[F].force_update /\ ~hist[S].force_update
       /\ Fresh(origin[1])
       /\ Over(F) /\ Over(S)
       /\ Clean(hist[F]) /\ Clean(hist[S])
       /\ Succeeded(hist[S].vision_res) /\ Succeeded(hist[S].music_res)
       /\ hist[S].vision_res.val # hist[F].vision_res.val
       /\ hist[S].music_res.val # hist[F].music_res.val
       /\ hist[S].rows_summary = 0
       /\ posts[1].ai_summary = hist[F].vision_res.val

\* C4 (one safe winner): of the safe invocations that race to write the same
\* column of one post, each with a text from Gemini, at most one UPDATE
\* changes a row; the other matches none.
C4_OneSafeWinner ==
    \A p, q \in Racers :
       (p # q /\ ~hist[p].force_update /\ ~hist[q].force_update)
       => /\ (Succeeded(hist[p].vision_res) /\ Succeeded(hist[q].vision_res))
                => ~(hist[p].rows_summary = 1 /\ hist[q].rows_summary = 1)
          /\ (Succeeded(hist[p].music_res) /\ Succeeded(hist[q].music_res))
                => ~(hist[p].rows_prompt = 1 /\ hist[q].rows_prompt = 1)

\* two safe invocations both got a summary from Gemini and both executed
\* their UPDATE: one changed the row, the other none, and it went on
C4_WinnerAndLoser ==
    \E p, q \in Racers :
       /\ p # q /\ ~hist[p].force_update /\ ~hist[q].force_update
       /\ Succeeded(hist[p].vision_res) /\ Succeeded(hist[q].vision_res)
       /\ hist[p].vision_res.val # hist[q].vision_res.val
       /\ hist[p].rows_summary = 1 /\ hist[q].rows_summary = 0
       /\ hist[q].caught = "no"
       /\ Over(p) /\ Over(q)

\* C5 (interleaving independence): a force and a safe invocation on one post,
\* all Gemini calls succeeding: when both are over the AI columns hold the
\* force invocation's texts, whoever wrote first.
C5_ForceWinsAnyOrder ==
    \A F, S \in Racers :
       ( /\ hist[F].force_update /\ ~hist[S].force_update
         /\ Over(F) /\ Over(S)
         /\ Clean(hist[F]) /\ Clean(hist[S]) )
       => /\ posts[1].ai_summary = hist[F].vision_res.val
          /\ posts[1].music_prompt = hist[F].music_res.val

\* the safe invocation wrote both its texts first, and the force one replaced them
C5_SafeWroteFirst ==
    \E F, S \in Racers :
       /\ hist[F].force_update /\ ~hist[S].force_update
       /\ Over(F) /\ Over(S)
       /\ Clean(hist[F]) /\ Clean(hist[S])
       /\ hist[S].rows_summary = 1 /\ hist[S].rows_prompt = 1
       /\ hist[S].vision_res.val # hist[F].vision_res.val
       /\ hist[S].music_res.val # hist[F].music_res.val
       /\ posts[1].ai_summary = hist[F].vision_res.val
       /\ posts[1].music_prompt = hist[F].music_res.val

\* C6 (force overwrites): when a force invocation whose Gemini call returned
\* the text V executes its UPDATE, the column holds V right after, whatever
\* it held before.
C6_ForceOverwrites ==
    [][\A p \in DOMAIN hist :
          hist[p].force_update =>
             /\ ( /\ hist[p].rows_summary = -1 /\ hist'[p].rows_summary # -1
                  /\ Succeeded(hist[p].vision_res) )
                   => posts'[hist[p].post_id].ai_summary = hist[p].vision_res.val
             /\ ( /\ hist[p].rows_prompt = -1 /\ hist'[p].rows_prompt # -1
                  /\ Succeeded(hist[p].music_res) )
                   => posts'[hist[p].post_id].music_prompt = hist[p].music_res.val]_vars

\* a force invocation replaced the non-empty summary the post started with
C6_PriorReplaced ==
    \E p \in Racers :
       /\ hist[p].force_update
       /\ origin[1].ai_summary = Prior
       /\ Succeeded(hist[p].vision_res)
       /\ hist[p].rows_summary = 1
       /\ posts[1].ai_summary = hist[p].vision_res.val

\* a step in which Gemini gives the sweeper's invocation for post id no text
GatewayFails(id) ==
    /\ inv[Sweeper].post_id = id
    /\ \/ Vision(Sweeper) /\ inv'[Sweeper].summary \notin Values
       \/ Music(Sweeper) /\ inv'[Sweeper].prompt \notin Values

\* a step in which the database fails the sweeper's invocation
StoreFails == ConnectFails(Sweeper) \/ StatementFails(Sweeper)

\* C7 (convergence, I2): the sweeper keeps running; if from some moment on
\* Gemini succeeds for a post and the database answers, then whenever the
\* post has both AI columns NULL it eventually has both non-null.
C7_Convergence ==
    \A id \in 1..NumRecords :
       (<>[][~GatewayFails(id)]_vars /\ <>[][~StoreFails]_vars)
          => (Fresh(posts[id]) ~> Enriched(posts[id]))

\* every post started fresh and the sweeper, asleep again, has filled both
\* columns of each with Gemini's texts
C7_Converged ==
    /\ \A id \in 1..NumRecords :
          /\ Fresh(origin[id])
          /\ posts[id].ai_summary \in Values
          /\ posts[id].music_prompt \in Values
    /\ sweep.pc = "sleep"

\* C8 (one-cycle convergence): all NumRecords posts have both AI columns NULL
\* when a cycle selects, and every Gemini call of the cycle succeeds and no
\* statement fails: when the cycle has ended every post has both non-null.
C8_OneCycleConvergence ==
    ( /\ cycle.ended # "no"
      /\ ~cycle.store_failed
      /\ cycle.all_fresh
      /\ cycle.invoked \subseteq cycle.clean )
    => \A id \in DOMAIN posts : Enriched(posts[id])

\* a cycle over NumRecords fresh posts ended with Gemini's texts in every post
C8_AllFilledInOneCycle ==
    /\ cycle.ended = "completed"
    /\ ~cycle.store_failed
    /\ cycle.all_fresh
    /\ cycle.invoked = DOMAIN posts
    /\ cycle.clean = DOMAIN posts
    /\ \A id \in DOMAIN posts :
          posts[id].ai_summary \in Values /\ posts[id].music_prompt \in Values

\* the posts of the sequence o
Range(o) == {o[i] : i \in DOMAIN o}

\* C9 (batch fault isolation, Gemini): Gemini fails for one post of a batch,
\* at any position, and succeeds for the others, and no statement fails:
\* when the cycle has ended every other post of the batch has both AI columns
\* non-null.
C9_GatewayFaultIsolation ==
    \A bad \in DOMAIN posts :
       ( /\ cycle.ended # "no"
         /\ ~cycle.store_failed
         /\ bad \in cycle.gateway_failed
         /\ cycle.invoked \ {bad} \subseteq cycle.clean )
       => \A id \in Range(cycle.selected) \ {bad} : Enriched(posts[id])

\* Gemini failed for the first post of the batch, and the later ones were filled
C9_FirstOfBatchFailed ==
    /\ cycle.ended = "completed"
    /\ ~cycle.store_failed
    /\ cycle.all_fresh
    /\ Len(cycle.selected) = NumRecords
    /\ cycle.selected[1] \in cycle.gateway_failed
    /\ Fresh(posts[cycle.selected[1]])
    /\ \A i \in 2..Len(cycle.selected) :
          /\ cycle.selected[i] \in cycle.clean
          /\ posts[cycle.selected[i]].ai_summary \in Values
          /\ posts[cycle.selected[i]].music_prompt \in Values

\* C10 (batch fault isolation, exceptions): whatever exception the invocation
\* for one post of a batch meets, the cycle goes on and calls process_ai_logic
\* for every other post it selected.
C10_BatchSurvivesException ==
    cycle.ended # "no" => cycle.invoked = Range(cycle.selected)


(***************************************************************************)
(* The properties of one invocation (EnrichSpec).                          *)
(***************************************************************************)
\* the SELECT of the invocation failed: it caught a database error before any Gemini call
SelectFailed(h) ==
    h.caught = "mysql.Error" /\ ~Called(h.vision_res) /\ ~Called(h.music_res)

\* C11 (per-field fault isolation): whatever happened in the summary step
\* (Gemini returned nothing or something of unexpected shape, the UPDATE
\* failed, or the step was skipped), an invocation that read the row with
\* the prompt empty, or with force set, calls run_gemini_music before it returns.
C11_PromptStepAttempted ==
    \A p \in DOMAIN hist :
       ( /\ Over(p)
         /\ hist[p].post_id \in DOMAIN posts
         /\ ~SelectFailed(hist[p])
         /\ Falsy(origin[hist[p].post_id].music_prompt) \/ hist[p].force_update )
       => Called(hist[p].music_res)

\* C12 (never raises): no invocation of process_ai_logic ends by raising to
\* its caller, whatever the database and Gemini do.
C12_NeverRaises ==
    \A p \in DOMAIN inv : inv[p].pc # "raised"

\* C13 (missing key is total failure): when Gemini's answer lacks art_review
\* (resp. music_prompt), the invocation executes no UPDATE of ai_summary
\* (resp. music_prompt), in either mode.
C13_MissingKeyNoUpdate ==
    \A p \in DOMAIN hist :
       /\ (hist[p].vision_res.kind = "dict" /\ hist[p].vision_res.val = Missing)
             => hist[p].rows_summary = -1
       /\ (hist[p].music_res.kind = "dict" /\ hist[p].music_res.val = Missing)
             => hist[p].rows_prompt = -1

\* the source text of the fallback chain: description, else the summary,
\* else the tags, else the generic text
SourceText(row) == Or(row.description, Or(row.ai_summary, Or(row.tags, GenericText)))

\* C14 (fallback chain): the text passed to run_gemini_music is the post's
\* description, else the summary computed or read by the invocation, else
\* its tags, else the generic text.
C14_FallbackChain ==
    \A p \in DOMAIN hist :
       Called(hist[p].music_res)
          => hist[p].desc_text = SourceText(posts[hist[p].post_id])

\* C15 (skip with no source): a safe invocation for a post without
\* description and tags, with music_prompt NULL and no summary after the
\* summary step, does not call run_gemini_music and leaves music_prompt NULL.
C15_SkipWithNoSource ==
    \A p \in DOMAIN hist :
       LET id == hist[p].post_id
       IN ( /\ id \in DOMAIN posts
            /\ ~hist[p].force_update
            /\ posts[id].description = NULL /\ posts[id].tags = NULL
            /\ origin[id].music_prompt = NULL
            /\ Falsy(posts[id].ai_summary) )
          => ~Called(hist[p].music_res) /\ posts[id].music_prompt = NULL

\* C19 (vanished record): the step in which an invocation reads a row that
\* is not in the table ends the invocation: it returns, having called Gemini
\* for nothing, caught nothing, and left the table as it was.
C19_VanishedRecordNoOp ==
    [][\A p \in DOMAIN inv :
          ( /\ inv[p].pc = "select"
            /\ inv[p].post_id \notin DOMAIN posts
            /\ inv'[p] # inv[p] )
          => /\ inv'[p].pc = "returned"
             /\ posts' = posts
             /\ Observed(p) =>
                   /\ ~Called(hist'[p].vision_res)
                   /\ ~Called(hist'[p].music_res)
                   /\ hist'[p].rows_summary = -1 /\ hist'[p].rows_prompt = -1]_vars

\* an invocation for a post that is not in the table read it and returned
\* without an exception, a Gemini call or a row
C19_ReturnedOnAbsentRow ==
    \E p \in DOMAIN hist :
       /\ Over(p)
       /\ hist[p].post_id \notin DOMAIN posts
       /\ hist[p].caught = "no" /\ hist[p].raised = "no"
       /\ ~Called(hist[p].vision_res) /\ ~Called(hist[p].music_res)
       /\ posts = origin


(***************************************************************************)
(* The properties of the manual endpoints (ManualSpec).                    *)
(***************************************************************************)
\* the step in which a manual endpoint answers after process_ai_logic returned
Answers ==
    web.pc = "called" /\ web'.pc = "idle" /\ inv[Pool].pc = "returned"

\* the row of the post the endpoint was asked for, as stored when it answers
StoredNow == posts[web.post_id][Column(web.endpoint)]

\* C16 (manual endpoints return the resulting value): the ai_summary
\* (resp. music_prompt) a manual endpoint answers with is the value stored
\* for the post once the endpoint's own process_ai_logic call has committed,
\* not the value its connection read before the call.
C16_AnswerIsStoredValue ==
    [][Answers => web'.response = StoredNow]_vars

\* every Gemini call of the invocation failed, and it made one at least
AllGatewayCallsFailed(h) ==
    /\ Called(h.vision_res) \/ Called(h.music_res)
    /\ h.vision_res.kind \in {"unset", "none", "bad"}
    /\ h.music_res.kind \in {"unset", "none", "bad"}

\* C17 (manual endpoints tolerate AI failure): when every Gemini call of a
\* manual request fails, the endpoint answers normally with the value
\* stored for the post at that moment, and the request has executed no UPDATE.
C17_AnswersCurrentValueOnFailure ==
    [][(Answers /\ AllGatewayCallsFailed(hist[Pool]))
          => /\ web'.response # Http500
             /\ web'.response = StoredNow
             /\ hist[Pool].rows_summary = -1 /\ hist[Pool].rows_prompt = -1]_vars


(***************************************************************************)
(* The properties of create_post (Spec).                                   *)
(***************************************************************************)
\* the step in which the task that create_post scheduled starts
TaskStarts ==
    inv[Pool].pc = "idle" /\ inv'[Pool].pc = "connect" /\ web'.pc = "idle"

\* C18 (creation ordering and independence): the task create_post schedules
\* is process_ai_logic with force_update set for a post whose INSERT is
\* already committed, create_post has answered with that id when the task
\* starts, and no step of the task, whatever its outcome, takes an id back
\* from the ones create_post has answered with.
C18_ScheduledAfterCommit ==
    [][/\ TaskStarts => /\ inv'[Pool].post_id \in DOMAIN posts
                        /\ inv'[Pool].force_update
                        /\ inv'[Pool].post_id \in web'.created
       /\ web.created \subseteq web'.created
       /\ web'.created \subseteq DOMAIN posts']_vars

\* the task of a created post ended with an exception after the answer
C18_TaskRaisedAfterAnswer ==
    /\ web.created # {}
    /\ web.pc = "idle"
    /\ inv[Pool].pc = "raised"


(***************************************************************************)
(* The frame of process_ai_logic and of register_music_url (FrameSpec).    *)
(***************************************************************************)
Metadata == {"description", "tags"}

\* C20 (frame of enrich): a step of process_ai_logic, in either mode, adds
\* or removes no post, leaves music_url and the creator's metadata of every
\* post as they were and changes no AI column of a post other than the one
\* it was invoked for; a step of register_music_url changes no AI column.
C20_Frame ==
    [][/\ DOMAIN posts' = DOMAIN posts
       /\ inv' # inv =>
             \A id \in DOMAIN posts :
                /\ \A col \in Metadata \cup {"music_url"} :
                      posts'[id][col] = posts[id][col]
                /\ id # inv[Caller].post_id =>
                      \A col \in Columns : posts'[id][col] = posts[id][col]
       /\ inv' = inv =>
             \A id \in DOMAIN posts, col \in Columns :
                posts'[id][col] = posts[id][col]]_vars

\* the invocation has written both AI columns of its post, and a music URL
\* was registered for that post and for another one meanwhile
C20_WroteBothAndRegistered ==
    /\ Over(Caller)
    /\ hist[Caller].rows_summary = 1 /\ hist[Caller].rows_prompt = 1
    /\ \E id \in DOMAIN posts :
          /\ id # hist[Caller].post_id
          /\ posts[id].music_url = "u1"
          /\ posts[hist[Caller].post_id].music_url = "u1"
          /\ \A col \in Columns : posts[id][col] = origin[id][col]


(***************************************************************************)
(* The properties of the gateway functions (GatewaySpec).                  *)
(***************************************************************************)
\* the image could not be fetched
FetchFailed == gw.image_url = "bad_url"

\* model.generate_content (or response.text) raised
ModelCallFailed == gw.reply \in Exceptions

\* the answer is a text that the function cannot parse: json.loads raises on
\* the text as the function passes it, or res[0] has no item to take
ParsingFailed ==
    /\ gw.reply \in Texts
    /\ LET res == json_loads(IF gw.fn = "run_gemini_music"
                             THEN StripFence(gw.reply) ELSE gw.reply)
       IN \/ res \in Exceptions
          \/ gw.fn = "run_gemini_music" /\ res = PyList(<<>>)

\* C21 (the gateway is best-effort): a call of run_gemini_vision or
\* run_gemini_music never ends with an exception, and whenever the image
\* fetch, the model call or the parsing of the answer fails it returns None.
C21_FailureGivesNone ==
    gw.pc = "done" =>
       /\ gw.result \notin Exceptions
       /\ (FetchFailed \/ ModelCallFailed \/ ParsingFailed) => gw.result = PyNone

\* a call fetched the image, got a text from Gemini that it could not parse,
\* and returned None
C21_ParseFailureReturnedNone ==
    /\ gw.pc = "done"
    /\ gw.img = TheImage
    /\ ParsingFailed
    /\ gw.result = PyNone


(***************************************************************************)
(* The properties of sync_missing_ai_data (BulkSpec).                      *)
(***************************************************************************)
\* the step in which a request to sync_missing_ai_data that selected posts ends
BulkEnds == bulk.pc = "dispatch" /\ bulk'.pc = "idle"

\* C22 (bulk reconciliation endpoint): a request selects the posts that have
\* a NULL AI column when it queries, each once; it ends having called
\* process_ai_logic once for each of them, with force_update False, and
\* answers with their number; and while it runs beside another safe
\* invocation no stored non-empty AI column changes.
C22_OnePassOverSelected ==
    [][/\ (bulk.pc = "idle" /\ bulk'.pc = "dispatch") =>
             /\ Range(bulk'.selected) =
                   {id \in DOMAIN posts : \E col \in Columns : posts[id][col] = NULL}
             /\ Len(bulk'.selected) = Cardinality(Range(bulk'.selected))
       /\ (inv[Bulk].pc = "idle" /\ inv'[Bulk].pc = "connect") =>
             ~inv'[Bulk].force_update
       /\ BulkEnds =>
             /\ bulk.invoked = bulk.selected
             /\ bulk'.response = Requested(Len(bulk.selected))
       /\ \A id \in DOMAIN posts, col \in Columns :
             NonEmpty(posts[id][col]) => posts'[id][col] = posts[id][col]]_vars


(***************************************************************************)
(* The decisions of one invocation, seen from the manual endpoints         *)
(* (ManualSpec).                                                           *)
(***************************************************************************)
\* the step in which the invocation of the pool leaves pc `from`, nothing caught
Leaves(from) ==
    /\ inv[Pool].pc \in from
    /\ inv'[Pool] # inv[Pool]
    /\ hist'[Pool].caught = "no"

\* C23 (fresh read, I3): an invocation decides whether a column is already
\* filled from the row as its own SELECT finds it in the store at that
\* moment: after the SELECT it calls run_gemini_vision exactly when the
\* stored ai_summary is empty or force_update is set, whatever the caller had
\* read before, and it decides on the prompt from the music_prompt that same
\* SELECT read.
C23_FreshRead ==
    [][/\ Leaves({"select"}) =>
             LET f == inv[Pool]
                 row == posts[f.post_id]
                 summary_wanted == Falsy(row.ai_summary) \/ f.force_update
                 prompt_wanted == Falsy(row.music_prompt) \/ f.force_update
             IN /\ inv'[Pool].pc = IF summary_wanted THEN "vision"
                                   ELSE IF prompt_wanted THEN "music"
                                   ELSE "returned"
                /\ inv'[Pool].pc # "returned" =>
                      inv'[Pool].current_data =
                         [ai_summary |-> row.ai_summary, music_prompt |-> row.music_prompt]
       /\ (Leaves({"vision", "upd_summary"}) /\ inv'[Pool].pc \in {"music", "returned"}) =>
             (inv'[Pool].pc = "music"
                <=> Falsy(inv[Pool].current_data.music_prompt) \/ inv[Pool].force_update)]_vars

\* analyze_art read ai_summary NULL, another invocation filled it, and the
\* safe invocation of the endpoint, having read the row itself, went on to
\* the prompt without calling run_gemini_vision
C23_CallerReadWasStale ==
    /\ web.pc = "called" /\ web.endpoint = "analyze_art"
    /\ web.seen = NULL
    /\ inv[Pool].pc = "music"
    /\ ~inv[Pool].force_update
    /\ inv[Pool].current_data.ai_summary \in Values
    /\ ~Called(hist[Pool].vision_res)


(***************************************************************************)
(* The Gemini calls of one invocation (EnrichSpec).                        *)
(***************************************************************************)
\* the invocation of the caller is over and its SELECT found the row
ReadItsRow ==
    /\ Over(Caller)
    /\ hist[Caller].post_id \in DOMAIN posts
    /\ ~SelectFailed(hist[Caller])

\* C24 (no unnecessary Gemini call): an invocation that read its row has
\* called run_gemini_vision exactly when the ai_summary it read was empty or
\* force_update was set, and run_gemini_music exactly when the music_prompt
\* it read was empty or force_update was set; a safe invocation on a row with
\* both columns non-empty makes no Gemini call and executes no UPDATE.
C24_CallsExactlyWhenWanted ==
    ReadItsRow =>
       LET h == hist[Caller]
           row == origin[h.post_id]
       IN /\ Called(h.vision_res) <=> (Falsy(row.ai_summary) \/ h.force_update)
          /\ Called(h.music_res) <=> (Falsy(row.music_prompt) \/ h.force_update)
          /\ (~h.force_update /\ ~Falsy(row.ai_summary) /\ ~Falsy(row.music_prompt))
                => /\ ~Called(h.vision_res) /\ ~Called(h.music_res)
                   /\ h.rows_summary = -1 /\ h.rows_prompt = -1
                   /\ posts = origin


(***************************************************************************)
(* The retries of the sweeper (LiveSpec).                                  *)
(***************************************************************************)
\* the post has an AI column that is NULL
HasNull(row) == \E col \in Columns : row[col] = NULL

\* the sweeper has just called process_ai_logic for post id
Attempting(id) == inv[Sweeper].pc = "connect" /\ inv[Sweeper].post_id = id

\* C25 (unbounded stateless retry): every cycle selects exactly the posts
\* that have a NULL AI column, whatever was attempted for them before, and
\* calls process_ai_logic with force_update False; and, once the database
\* answers, a post that has a NULL column is attempted again and again for
\* as long as it has one: nothing counts the attempts or gives a post up.
C25_RetriedWhileNull ==
    /\ [][(sweep.pc = "sleep" /\ sweep'.pc = "dispatch") =>
             Range(sweep'.batch) = {id \in DOMAIN posts : HasNull(posts[id])}]_vars
    /\ [][(inv[Sweeper].pc = "idle" /\ inv'[Sweeper].pc = "connect") =>
             ~inv'[Sweeper].force_update]_vars
    /\ \A id \in 1..NumRecords :
          <>[][~StoreFails]_vars
             => (HasNull(posts[id]) ~> (Attempting(id) \/ ~HasNull(posts[id])))

\* the sweeper calls process_ai_logic again for a post that an earlier cycle
\* has written to without completing it
C25_AttemptedAgain ==
    \E id \in DOMAIN posts :
       /\ Attempting(id)
       /\ posts[id].ai_summary # NULL
       /\ posts[id].music_prompt = NULL

\* C26 (the sweeper never stops): the sweeper only ever goes from its sleep
\* to a cycle and from a cycle back to its sleep; it is asleep again and
\* again, also after a cycle in which process_ai_logic raised, and every
\* sleep is followed by a further cycle.
C26_SweeperNeverStops ==
    /\ [][sweep'.pc # sweep.pc =>
             <<sweep.pc, sweep'.pc>> \in {<<"sleep", "dispatch">>, <<"dispatch", "sleep">>}]_vars
    /\ []<>(sweep.pc = "sleep")
    /\ (inv[Sweeper].pc = "raised") ~> (sweep.pc = "sleep")
    /\ (sweep.pc = "sleep") ~> (sweep.pc = "dispatch")

\* a cycle that has written to a post is failing with an exception
C26_CycleFailing ==
    /\ sweep.pc = "dispatch"
    /\ inv[Sweeper].pc = "raised"
    /\ posts # origin


(***************************************************************************)
(* Two force invocations, and the values a force invocation leaves         *)
(* (RaceSpec).                                                             *)
(***************************************************************************)
\* the history field that holds the rowcount of the UPDATE of col
RowsOf(col) == IF col = "ai_summary" THEN "rows_summary" ELSE "rows_prompt"

\* the step in which invocation p executes and commits its UPDATE of col
Commits(p, col) ==
    /\ inv[p].pc = UpdatePc(col)
    /\ inv'[p] # inv[p]
    /\ hist'[p][RowsOf(col)] # -1

\* the value invocation p is about to write to col
Writing(p, col) == IF col = "ai_summary" THEN inv[p].summary ELSE inv[p].prompt

\* C27 (force is last-writer-wins per field): with two force invocations on
\* one post, each committed UPDATE of a column leaves in it the value that
\* invocation got from Gemini, whatever the other had written, and no other
\* step changes the column: its final value is that of the UPDATE committed
\* last, for each column on its own.
C27_LastWriterWins ==
    [][(\A p \in Racers : hist[p].force_update) =>
          \A col \in Columns :
             /\ \A p \in Racers :
                   Commits(p, col) => posts'[1][col] = Writing(p, col)
             /\ (\A p \in Racers : ~Commits(p, col)) => posts'[1][col] = posts[1][col]]_vars

\* two force invocations got different texts and wrote them all; the summary
\* left is the one's and the prompt left is the other's
C27_EachFieldItsLastWriter ==
    \E p, q \in Racers :
       /\ p # q
       /\ hist[p].force_update /\ hist[q].force_update
       /\ Over(p) /\ Over(q)
       /\ Clean(hist[p]) /\ Clean(hist[q])
       /\ hist[p].vision_res.val # hist[q].vision_res.val
       /\ hist[p].music_res.val # hist[q].music_res.val
       /\ hist[p].rows_summary = 1 /\ hist[q].rows_summary = 1
       /\ hist[p].rows_prompt = 1 /\ hist[q].rows_prompt = 1
       /\ posts[1].ai_summary = hist[p].vision_res.val
       /\ posts[1].music_prompt = hist[q].music_res.val


(***************************************************************************)
(* A force invocation that gets nothing from Gemini (EnrichSpec).          *)
(***************************************************************************)
\* C28 (force with a failed Gemini call preserves the value): when
\* run_gemini_vision (resp. run_gemini_music) gives a force invocation an
\* absent answer, the invocation executes no UPDATE of ai_summary (resp.
\* music_prompt), and the column keeps the value it had.
C28_AbsentResultNoUpdate ==
    (hist[Caller].force_update /\ hist[Caller].post_id \in DOMAIN posts) =>
       LET h == hist[Caller]
           id == h.post_id
       IN /\ h.vision_res = GwNone =>
                h.rows_summary = -1 /\ posts[id].ai_summary = origin[id].ai_summary
          /\ h.music_res = GwNone =>
                h.rows_prompt = -1 /\ posts[id].music_prompt = origin[id].music_prompt

\* a force invocation on a post with both columns filled got nothing from
\* either Gemini call and returned, the post being as it was
C28_ForceLeftValues ==
    /\ Over(Caller)
    /\ hist[Caller].force_update
    /\ hist[Caller].vision_res = GwNone /\ hist[Caller].music_res = GwNone
    /\ hist[Caller].post_id \in DOMAIN posts
    /\ posts[1].ai_summary = Prior /\ posts[1].music_prompt = Prior
    /\ posts = origin


(***************************************************************************)
(* The sweeper's query and the executor's test of emptiness (SweepSpec).   *)
(***************************************************************************)
\* the row has an AI column that process_ai_logic takes for empty
HasEmpty(row) == \E col \in Columns : Falsy(row[col])

\* C29 (sweeper and executor agree on emptiness): every post that has an AI
\* column process_ai_logic takes for empty (NULL or the empty string) is
\* among the posts each cycle of the sweeper selects.
C29_EmptyIsSelected ==
    [][(sweep.pc = "sleep" /\ sweep'.pc = "dispatch") =>
          {id \in DOMAIN posts : HasEmpty(posts[id])} \subseteq Range(sweep'.batch)]_vars

\* the step in which invocation p calls run_gemini_music with the summary it
\* holds as the text of the prompt (no description was given)
SynthesizesFromSummary(p) ==
    /\ inv[p].pc = "music"
    /\ inv'[p] # inv[p]
    /\ Falsy(inv[p].description)
    /\ ~Falsy(inv[p].current_data.ai_summary)

\* C30 (the prompt source matches the stored summary): an invocation whose
\* safe UPDATE of ai_summary matched no row, because another invocation had
\* filled the column, and which then synthesizes the prompt from the summary,
\* takes for it the ai_summary stored for the post at that moment, not the
\* summary of its own that was not stored.
C30_SourceIsStoredSummary ==
    [][\A p \in Racers :
          (SynthesizesFromSummary(p) /\ ~hist[p].force_update /\ hist[p].rows_summary = 0) =>
             inv[p].current_data.ai_summary = posts[inv[p].post_id].ai_summary]_vars


(***************************************************************************)
(* The two manual endpoints compared (ManualSpec).                         *)
(***************************************************************************)
\* the step in which a manual endpoint calls process_ai_logic
Requests == web.pc = "idle" /\ web'.pc = "called"

\* C31 (the two manual endpoints perform the same store transition): either
\* endpoint calls process_ai_logic with the post's id and metadata and the
\* flag of the request, nothing in the call naming a column; a force request
\* to either of them whose Gemini calls all gave a text has executed both
\* UPDATEs and leaves both columns with those texts when it answers; and the
\* endpoints differ in the column they answer with.
C31_SameTransitionEitherEndpoint ==
    [][/\ Requests =>
             \E force_update \in BOOLEAN :
                inv'[Pool] = Call(web'.post_id, posts[web'.post_id].description,
                                  posts[web'.post_id].tags, force_update)
       /\ (Answers /\ hist[Pool].force_update /\ Clean(hist[Pool])) =>
             /\ hist[Pool].rows_summary # -1 /\ hist[Pool].rows_prompt # -1
             /\ posts[web.post_id].ai_summary = hist[Pool].vision_res.val
             /\ posts[web.post_id].music_prompt = hist[Pool].music_res.val
       /\ Answers => web'.response \in {web.seen, posts[web.post_id][Column(web.endpoint)]}]_vars

\* a force request to analyze_art is about to replace a music_prompt that is
\* filled with another text
C31_AnalyzeReplacesPrompt ==
    /\ web.pc = "called" /\ web.endpoint = "analyze_art"
    /\ inv[Pool].pc = "upd_prompt"
    /\ inv[Pool].force_update
    /\ posts[inv[Pool].post_id].music_prompt \in Values
    /\ inv[Pool].prompt \in Values
    /\ inv[Pool].prompt # posts[inv[Pool].post_id].music_prompt

====
